---- MODULE Spec2Model ----
(***************************************************************************)
(* Model of chatbot/chatbot_db.py: the websocket connection handler, the   *)
(* process-wide chat_histories map, the model_lock around generation, the  *)
(* chat_logs table and the reply post-processing of generate_response.     *)
(* Texts are sequences of one-character strings, so that the string        *)
(* operations of the code (split, strip, re.sub, re.split, join) are       *)
(* computed character by character. A character up to U+00FF is the        *)
(* string holding it; a character above U+00FF, which a string of this     *)
(* language cannot hold, is the string "U+" followed by its four           *)
(* hexadecimal digits. The alphabet of the texts is U+0000..U+00FF and the *)
(* characters above U+00FF named in Digits, OtherWordChars, Whitespace and *)
(* Lower.                                                                  *)
(***************************************************************************)
EXTENDS Integers, Sequences, FiniteSets

\* ------------------------------------------------------------------ bounds

\* number of websocket connections (one handler, one uuid4 session id each)
MaxSessions == 2

\* number of client messages received over all connections together
MaxTurns == 4

\* number of pieces a decoded text is made of when generate_response is run on
\* its own
MaxTokens == 4

\* ------------------------------------------------------------------- texts

Sessions == 1..MaxSessions

MAX_HISTORY == 3

system_prompt ==
    <<"Y","o","u"," ","a","r","e"," ","a"," ","h","e","l","p","f","u","l"," ",
      "A","I"," ","a","s","s","i","s","t","a","n","t","."," ","A","n","s","w",
      "e","r"," ","t","h","e"," ","u","s","e","r","'","s"," ","q","u","e","s",
      "t","i","o","n"," ","c","o","n","c","i","s","e","l","y"," ","a","n","d",
      " ","a","c","c","u","r","a","t","e","l","y","."," ","D","o"," ","n","o",
      "t"," ","e","x","p","l","a","i","n"," ","y","o","u","r"," ","r","e","a",
      "s","o","n","i","n","g"," ","o","r"," ","t","h","o","u","g","h","t"," ",
      "p","r","o","c","e","s","s","."," ","J","u","s","t"," ","p","r","o","v",
      "i","d","e"," ","t","h","e"," ","a","n","s","w","e","r"," ","i","n"," ",
      "1","-","3"," ","c","o","m","p","l","e","t","e"," ","s","e","n","t","e",
      "n","c","e","s","\n","\n">>

SystemTag == <<"S", "y", "s", "t", "e", "m", ":", " ">>

UserTag == <<"U", "s", "e", "r", ":", " ">>

AssistantTag == <<"A", "s", "s", "i", "s", "t", "a", "n", "t", ":", " ">>

AssistantMarker == <<"A", "s", "s", "i", "s", "t", "a", "n", "t", ":">>

UserMarker == <<"U", "s", "e", "r", ":">>

ContextSuffix == <<"\n", "A", "s", "s", "i", "s", "t", "a", "n", "t", ":">>

END == <<"[", "E", "N", "D", "]">>

\* f"System: {system_prompt}", the first element of every new history
SystemTurn == SystemTag \o system_prompt

\* f"User: {user_input}"
UserTurn(user_input) == UserTag \o user_input

\* f"Assistant: {response}"
AssistantTurn(resp) == AssistantTag \o resp

LowerLetters ==
    <<"a", "b", "c", "d", "e", "f", "g", "h", "i", "j", "k", "l", "m", "n",
      "o", "p", "q", "r", "s", "t", "u", "v", "w", "x", "y", "z">>

UpperLetters ==
    <<"A", "B", "C", "D", "E", "F", "G", "H", "I", "J", "K", "L", "M", "N",
      "O", "P", "Q", "R", "S", "T", "U", "V", "W", "X", "Y", "Z">>

\* the decimal digits: ASCII and ARABIC-INDIC DIGIT ZERO..NINE
Digits ==
    {"0", "1", "2", "3", "4", "5", "6", "7", "8", "9",
     "U+0660", "U+0661", "U+0662", "U+0663", "U+0664", "U+0665", "U+0666",
     "U+0667", "U+0668", "U+0669"}

\* the letters and numeric characters of U+0080..U+00FF, and above them LATIN
\* SMALL LETTER LONG S, KELVIN SIGN, LATIN CAPITAL LETTER I WITH DOT ABOVE,
\* LATIN SMALL LETTER DOTLESS I and GREEK SMALL LETTER MU
OtherWordChars ==
    { "ª", "²", "³", "µ", "¹", "º", "¼", "½", "¾", "À", "Á", "Â", "Ã", "Ä",
      "Å", "Æ", "Ç", "È", "É", "Ê", "Ë", "Ì", "Í", "Î", "Ï", "Ð", "Ñ", "Ò",
      "Ó", "Ô", "Õ", "Ö", "Ø", "Ù", "Ú", "Û", "Ü", "Ý", "Þ", "ß", "à", "á",
      "â", "ã", "ä", "å", "æ", "ç", "è", "é", "ê", "ë", "ì", "í", "î", "ï",
      "ð", "ñ", "ò", "ó", "ô", "õ", "ö", "ø", "ù", "ú", "û", "ü", "ý", "þ",
      "ÿ",
      "U+017F", "U+212A", "U+0130", "U+0131", "U+03BC" }

Range(f) == {f[i] : i \in DOMAIN f}

\* the characters the regex class \w matches in a str pattern (no re.ASCII):
\* the alphanumeric characters and the underscore
WordChars ==
    Range(LowerLetters) \cup Range(UpperLetters) \cup Digits \cup {"_"}
        \cup OtherWordChars

\* the characters str.strip() removes, those of str.isspace(): U+0009..U+000D,
\* U+001C..U+001F, U+0020, U+0085, U+00A0 and the spaces above U+00FF
Whitespace ==
    {" ", "\n", "\t", "\r", "\f", "", "", "", "", "", "", " ",
     "U+1680", "U+2000", "U+2001", "U+2002", "U+2003", "U+2004", "U+2005",
     "U+2006", "U+2007", "U+2008", "U+2009", "U+200A", "U+2028", "U+2029",
     "U+202F", "U+205F", "U+3000"}

\* the sentence-terminal characters of [.!?] and of endswith(('.', '!', '?'))
Terminals == {".", "!", "?"}

\* case folding of the (?i) flag in a str pattern, as far as the letters of
\* the patterns go: beside A-Z, long s matches s, the Kelvin sign matches k,
\* dotted capital I and dotless i match i
Lower(c) ==
    IF c \in Range(UpperLetters)
    THEN LowerLetters[CHOOSE i \in DOMAIN UpperLetters : UpperLetters[i] = c]
    ELSE IF c = "U+017F" THEN "s"
    ELSE IF c = "U+212A" THEN "k"
    ELSE IF c \in {"U+0130", "U+0131"} THEN "i"
    ELSE c

Min(S) == CHOOSE x \in S : \A y \in S : x <= y

Max(S) == CHOOSE x \in S : \A y \in S : x >= y

\* text s from position i on (s[i-1:] in Python terms)
From(s, i) == SubSeq(s, i, Len(s))

\* p occurs in s starting at position i
MatchAt(s, p, i) ==
    /\ i >= 1
    /\ i + Len(p) - 1 <= Len(s)
    /\ \A k \in 1..Len(p) : s[i + k - 1] = p[k]

\* p occurs in s starting at position i, ignoring case
MatchAtNoCase(s, p, i) ==
    /\ i >= 1
    /\ i + Len(p) - 1 <= Len(s)
    /\ \A k \in 1..Len(p) : Lower(s[i + k - 1]) = Lower(p[k])

EndsWithTerminal(s) == Len(s) > 0 /\ s[Len(s)] \in Terminals

\* str.strip()
strip(s) ==
    LET keep == {i \in 1..Len(s) : s[i] \notin Whitespace}
    IN  IF keep = {} THEN <<>> ELSE SubSeq(s, Min(keep), Max(keep))

\* the regex assertion \b between positions i-1 and i of s
WordBoundary(s, i) ==
    LET before == i - 1 >= 1 /\ i - 1 <= Len(s) /\ s[i - 1] \in WordChars
        after  == i >= 1 /\ i <= Len(s) /\ s[i] \in WordChars
    IN  before # after

\* s.replace('\n', ' ')
ReplaceNewlines(s) == [i \in 1..Len(s) |-> IF s[i] = "\n" THEN " " ELSE s[i]]

\* " ".join(parts)
RECURSIVE JoinWith(_, _)
JoinWith(sep, parts) ==
    IF parts = <<>> THEN <<>>
    ELSE IF Len(parts) = 1 THEN parts[1]
    ELSE parts[1] \o sep \o JoinWith(sep, Tail(parts))

\* ------------------------------------------- generate_response, lines 107-133

\* decoded.split("Assistant:")[-1].strip(): the text after the last marker
ExtractReply(decoded) ==
    LET hits == {i \in 1..Len(decoded) : MatchAt(decoded, AssistantMarker, i)}
    IN  IF hits = {} THEN strip(decoded)
        ELSE strip(From(decoded, Max(hits) + Len(AssistantMarker)))

\* the position of the '>' closing a tag that opens at s[1], or 0: '.*?' takes
\* the nearest '>' and '.' does not match a newline
TagEnd(s) ==
    LET closes == {k \in 2..Len(s) : s[k] = ">"}
    IN  IF closes = {} THEN 0
        ELSE IF \E j \in 2..(Min(closes) - 1) : s[j] = "\n" THEN 0
        ELSE Min(closes)

\* re.sub(r"<.*?>", "", response)
RECURSIVE RemoveTags(_)
RemoveTags(s) ==
    IF s = <<>> THEN <<>>
    ELSE IF Head(s) = "<" /\ TagEnd(s) > 0 THEN RemoveTags(From(s, TagEnd(s) + 1))
    ELSE <<Head(s)>> \o RemoveTags(Tail(s))

\* r"\b(User:|Assistant:)\b" matches at position i of s
MarkerAt(s, i) ==
    \E m \in {UserMarker, AssistantMarker} :
        /\ MatchAt(s, m, i)
        /\ WordBoundary(s, i)
        /\ WordBoundary(s, i + Len(m))

\* re.split(r"\b(User:|Assistant:)\b", response)[0].strip()
CutAtMarker(s) ==
    LET hits == {i \in 1..Len(s) : MarkerAt(s, i)}
    IN  IF hits = {} THEN strip(s) ELSE strip(SubSeq(s, 1, Min(hits) - 1))

ThinkingPatterns ==
    { <<"H", "m", "m">>,
      <<"W", "a", "i", "t">>,
      <<"L", "e", "t", " ", "m", "e", " ", "t", "h", "i", "n", "k">>,
      <<"I", " ", "t", "h", "i", "n", "k">>,
      <<"M", "a", "y", "b", "e">>,
      <<"P", "o", "s", "s", "i", "b", "l", "y">>,
      <<"A", "l", "t", "e", "r", "n", "a", "t", "i", "v", "e", "l", "y">>,
      <<"S", "h", "o", "u", "l", "d", " ", "I">>,
      <<"N", "o", "w", " ", "I", " ", "n", "e", "e", "d", " ", "t", "o">>,
      <<"S", "o">>,
      <<"A", "l", "r", "i", "g", "h", "t">>,
      <<"A", "n", "y", "w", "a", "y">> }

\* r'(?i)\b(Hmm|Wait|...)\b' matches at position i of s
ThinkingAt(s, i) ==
    \E p \in ThinkingPatterns :
        /\ MatchAtNoCase(s, p, i)
        /\ WordBoundary(s, i)
        /\ WordBoundary(s, i + Len(p))

\* re.sub(r'(?i)\b(...)\b.*', '', response): every match runs to the end of
\* its line, the newline itself stays
RECURSIVE RemoveThinkingAll(_)
RemoveThinkingAll(s) ==
    LET hits == {i \in 1..Len(s) : ThinkingAt(s, i)}
    IN  IF hits = {} THEN s
        ELSE LET i   == Min(hits)
                 nls == {k \in i..Len(s) : s[k] = "\n"}
             IN  IF nls = {} THEN SubSeq(s, 1, i - 1)
                 ELSE SubSeq(s, 1, i - 1) \o RemoveThinkingAll(From(s, Min(nls)))

RemoveThinking(s) == strip(RemoveThinkingAll(s))

\* re.split(r'(?<=[.!?]) +', response)
RECURSIVE SplitSentences(_)
SplitSentences(s) ==
    LET cuts == {i \in 2..Len(s) : s[i] = " " /\ s[i - 1] \in Terminals}
    IN  IF cuts = {} THEN <<s>>
        ELSE LET i    == Min(cuts)
                 rest == {j \in i..Len(s) : s[j] # " "}
             IN  IF rest = {} THEN <<SubSeq(s, 1, i - 1), <<>> >>
                 ELSE <<SubSeq(s, 1, i - 1)>> \o SplitSentences(From(s, Min(rest)))

\* " ".join(sentences[:3]).strip()
TruncateSentences(s) ==
    LET sentences == SplitSentences(s)
        kept      == SubSeq(sentences, 1, Min({3, Len(sentences)}))
    IN  strip(JoinWith(<<" ">>, kept))

\* the full stop added to a non-empty text only
Punctuate_NonEmptyOnly(s) == IF s = <<>> \/ EndsWithTerminal(s) THEN s ELSE s \o <<".">>

\* if not response.endswith(('.', '!', '?')): response += '.'
Punctuate(s) == IF EndsWithTerminal(s) THEN s ELSE s \o <<".">>

\* response.replace('\n', ' ').strip()
FinalCleanup(s) == strip(ReplaceNewlines(s))

\* lines 108-133: the reply computed from the decoded model output
PostProcess(decoded) ==
    FinalCleanup(Punctuate(TruncateSentences(RemoveThinking(
        CutAtMarker(RemoveTags(ExtractReply(decoded)))))))

\* generate_response(context): model.generate returns the prompt tokens
\* followed by the new tokens, so the decoded text is the context followed by
\* the newly generated text
generate_response(context, generated) == PostProcess(context \o generated)

\* ------------------------------------------------------------------ inputs

\* The clients follow one of two plans, fixed when the process starts:
\*   "concurrent": up to MaxSessions connections, the client of connection s
\*                 always sends its own text and the model answers it with
\*                 a text of that connection's own;
\*   "single":     one connection, every message drawn from Messages and
\*                 every generated text from Generations.
Plans == {"concurrent", "single"}

\* the texts a client sends under the plan "single"
Messages ==
    { <<"h", "i">>,
      <<"S", "y", "s", "t", "e", "m", ":", " ", "x">> }

\* the texts the model generates after the prompt under the plan "single"
Generations ==
    { <<" ", "4", ".">>,
      <<" ", "Y", "e", "s", "!", "\n", "U", "s", "e", "r", ":", "n", "o">> }

DigitChars == <<"0", "1", "2", "3", "4", "5", "6", "7", "8", "9">>

\* the text the client of connection s sends under the plan "concurrent"
OwnText(s) == <<"q", DigitChars[(s % 10) + 1]>>

\* the text the model generates for connection s under the plan "concurrent"
OwnGeneration(s) == <<" ", "r", DigitChars[(s % 10) + 1]>>

\* ------------------------------------------------------------------- state

VARIABLES
    plan,            \* the clients' plan
    pc,              \* where each connection handler is suspended
    conn,            \* each websocket as the server sees it
    chat_histories,  \* session id -> list of turns (module-level dict)
    locked,          \* model_lock._locked
    waiters,         \* model_lock._waiters, handlers in arrival order
    received,        \* the texts receive_text returned, per socket
    context,         \* the handler's local context
    response,        \* the handler's local response
    sent,            \* the text frames sent, per socket
    chat_logs,       \* the rows of table chat_logs, per session_id, in
                     \* insertion order
    err,             \* the exception the handler caught as e
    decoded,         \* generate_response's local decoded, when the function
                     \* is run on its own
    cleaned,         \* the value generate_response returned for decoded:
                     \* <<>> before the call, <<response>> after it
    loop_thread      \* the handler whose code keeps the event-loop thread
                     \* from one step to the next, 0 when the thread is
                     \* back in the loop

vars == <<plan, pc, conn, chat_histories, locked, waiters, received, context,
          response, sent, chat_logs, err, decoded, cleaned, loop_thread>>

\* the connections the plan makes
Connections == IF plan = "single" THEN {1} ELSE Sessions

\* the texts receive_text can return on socket s
ClientTexts(s) == IF plan = "single" THEN Messages ELSE {OwnText(s)}

\* the texts model.generate can add to the prompt of handler s
ModelTexts(s) == IF plan = "single" THEN Generations ELSE {OwnGeneration(s)}

\* chat_histories[session_id] = value
Put(d, k, v) == [x \in (DOMAIN d) \cup {k} |-> IF x = k THEN v ELSE d[x]]

\* the whole map emptied: chat_histories.clear()
Pop_Clear(d, k) == [x \in {} |-> d[x]]

\* chat_histories.pop(session_id, None)
Pop(d, k) == [x \in (DOMAIN d) \ {k} |-> d[x]]

\* the n elements after the first one: lst[1:n+1]
LastN_FromFront(lst, n) == SubSeq(lst, 2, Min({n + 1, Len(lst)}))

\* lst[-n:]
LastN(lst, n) ==
    IF n = 0 \/ n >= Len(lst) THEN lst ELSE SubSeq(lst, Len(lst) - n + 1, Len(lst))

\* a history cut to its last 2*MAX_HISTORY + 1 turns, the first turn not kept apart
Trim_NoSystem(h) ==
    IF Len(h) > MAX_HISTORY * 2 + 1
    THEN LastN(h, MAX_HISTORY * 2 + 1)
    ELSE h

\* lines 154-155: the history after the length check
Trim(h) ==
    IF Len(h) > MAX_HISTORY * 2 + 1
    THEN <<h[1]>> \o LastN(h, MAX_HISTORY * 2)
    ELSE h

\* the turns joined by newlines, the "\nAssistant:" suffix left out
Render_NoSuffix(h) == JoinWith(<<"\n">>, h)

\* line 157: "\n".join(chat_histories[session_id]) + "\nAssistant:"
Render(h) == JoinWith(<<"\n">>, h) \o ContextSuffix

\* the user_input of the turn in progress
user_input(s) == received[s][Len(received[s])]

RECURSIVE ReceivedUpTo(_)
ReceivedUpTo(n) == IF n = 0 THEN 0 ELSE Len(received[n]) + ReceivedUpTo(n - 1)

\* the number of messages received so far over all sockets
TotalReceived == ReceivedUpTo(MaxSessions)

\* generate_response(context) called on the event-loop thread: the handler
\* keeps the thread until the call is over
GenerationHolder_Direct(s) == s

\* line 160: the handler that keeps the event-loop thread while the
\* generation of handler s runs. await run_in_threadpool hands the call to a
\* worker thread and suspends the handler, so the thread goes back to the
\* loop
GenerationHolder(s) == 0

\* handler s can be resumed: the event-loop thread is in the loop, or s itself
\* holds it
Runnable(s) == loop_thread \in {0, s}

\* a lock that every handler finds free
LockFree_Unchecked == TRUE

\* asyncio.Lock.acquire takes the lock without waiting
LockFree == ~locked /\ waiters = <<>>

Init ==
    /\ plan \in Plans
    /\ pc = [s \in Sessions |-> "idle"]
    /\ conn = [s \in Sessions |-> "none"]
    /\ chat_histories = <<>>
    /\ locked = FALSE
    /\ waiters = <<>>
    /\ received = [s \in Sessions |-> <<>>]
    /\ context = [s \in Sessions |-> <<>>]
    /\ response = [s \in Sessions |-> <<>>]
    /\ sent = [s \in Sessions |-> <<>>]
    /\ chat_logs = [s \in Sessions |-> <<>>]
    /\ err = [s \in Sessions |-> "none"]
    /\ decoded = <<>>
    /\ cleaned = <<>>
    /\ loop_thread = 0

\* ----------------------------------------------------------------- actions

\* lines 138-146: accept, new session id, new history. Connections are
\* numbered in the order they are accepted.
Accept(s) ==
    /\ pc[s] = "idle"
    /\ s \in Connections
    /\ \A t \in Sessions : t < s => pc[t] # "idle"
    /\ Runnable(s)
    /\ conn' = [conn EXCEPT ![s] = "open"]
    /\ chat_histories' = Put(chat_histories, s, <<SystemTurn>>)
    /\ pc' = [pc EXCEPT ![s] = "receive"]
    /\ UNCHANGED <<loop_thread, decoded, cleaned, plan, locked, waiters,
                   received, context, response, sent, chat_logs, err>>

\* the client of socket s goes away
ClientDisconnect(s) ==
    /\ conn[s] = "open"
    /\ conn' = [conn EXCEPT ![s] = "gone"]
    /\ UNCHANGED <<loop_thread, decoded, cleaned, plan, pc, chat_histories,
                   locked, waiters, received, context, response, sent,
                   chat_logs, err>>

\* lines 150-159: receive_text returns m; append the User turn, trim, build
\* the context, then acquire model_lock or queue for it
ReceiveText(s) ==
    /\ pc[s] = "receive"
    /\ conn[s] = "open"
    /\ Runnable(s)
    /\ TotalReceived < MaxTurns
    /\ \E m \in ClientTexts(s) :
         LET h == Trim(Append(chat_histories[s], UserTurn(m)))
         IN  /\ received' = [received EXCEPT ![s] = Append(@, m)]
             /\ chat_histories' = [chat_histories EXCEPT ![s] = h]
             /\ context' = [context EXCEPT ![s] = Render(h)]
    /\ IF LockFree
       THEN /\ locked' = TRUE
            /\ pc' = [pc EXCEPT ![s] = "generating"]
            /\ loop_thread' = GenerationHolder(s)
            /\ UNCHANGED waiters
       ELSE /\ waiters' = Append(waiters, s)
            /\ pc' = [pc EXCEPT ![s] = "wait_lock"]
            /\ loop_thread' = 0
            /\ UNCHANGED locked
    /\ UNCHANGED <<decoded, cleaned, plan, conn, response, sent, chat_logs,
                   err>>

\* lines 150, 171-174: receive_text raises WebSocketDisconnect
ReceiveDisconnect(s) ==
    /\ pc[s] = "receive"
    /\ conn[s] = "gone"
    /\ Runnable(s)
    /\ chat_histories' = Pop(chat_histories, s)
    /\ pc' = [pc EXCEPT ![s] = "done"]
    /\ UNCHANGED <<loop_thread, decoded, cleaned, plan, conn, locked, waiters,
                   received, context, response, sent, chat_logs, err>>

\* lines 150, 175-177: receive_text raises another exception on an open
\* connection (KeyError on a binary frame); the handler calls
\* websocket.close()
ReceiveFault(s) ==
    /\ pc[s] = "receive"
    /\ conn[s] = "open"
    /\ Runnable(s)
    /\ err' = [err EXCEPT ![s] = "receive"]
    /\ pc' = [pc EXCEPT ![s] = "closing"]
    /\ UNCHANGED <<loop_thread, decoded, cleaned, plan, conn, chat_histories,
                   locked, waiters, received, context, response, sent,
                   chat_logs>>

\* the first waiter goes on whether or not the lock is held
AcquireWake_Barging(s) ==
    /\ pc[s] = "wait_lock"
    /\ Runnable(s)
    /\ waiters # <<>>
    /\ Head(waiters) = s
    /\ locked' = TRUE
    /\ waiters' = Tail(waiters)
    /\ pc' = [pc EXCEPT ![s] = "generating"]
    /\ loop_thread' = GenerationHolder(s)
    /\ UNCHANGED <<decoded, cleaned, plan, conn, chat_histories, received,
                   context, response, sent, chat_logs, err>>

\* line 159: release has resolved the future of the first waiter, which now
\* takes the lock and submits the generation to the thread pool
AcquireWake(s) ==
    /\ pc[s] = "wait_lock"
    /\ Runnable(s)
    /\ ~locked
    /\ waiters # <<>>
    /\ Head(waiters) = s
    /\ locked' = TRUE
    /\ waiters' = Tail(waiters)
    /\ pc' = [pc EXCEPT ![s] = "generating"]
    /\ loop_thread' = GenerationHolder(s)
    /\ UNCHANGED <<decoded, cleaned, plan, conn, chat_histories, received,
                   context, response, sent, chat_logs, err>>

\* generation returns and log_chat is called, the Assistant turn not yet
\* appended
GenReturn_NoAppend(s) ==
    /\ pc[s] = "generating"
    /\ Runnable(s)
    /\ \E g \in ModelTexts(s) :
         response' = [response EXCEPT ![s] = generate_response(context[s], g)]
    /\ locked' = FALSE
    /\ loop_thread' = 0
    /\ pc' = [pc EXCEPT ![s] = "logging"]
    /\ UNCHANGED <<decoded, cleaned, plan, conn, chat_histories, waiters,
                   received, context, sent, chat_logs, err>>

\* lines 160-163: generation returns; the lock is released, the Assistant
\* turn appended and log_chat called
GenReturn(s) ==
    /\ pc[s] = "generating"
    /\ Runnable(s)
    /\ \E g \in ModelTexts(s) :
         LET r == generate_response(context[s], g)
         IN  /\ response' = [response EXCEPT ![s] = r]
             /\ chat_histories' =
                    [chat_histories EXCEPT ![s] = Append(@, AssistantTurn(r))]
    /\ locked' = FALSE
    /\ loop_thread' = 0
    /\ pc' = [pc EXCEPT ![s] = "logging"]
    /\ UNCHANGED <<decoded, cleaned, plan, conn, waiters, received, context,
                   sent, chat_logs, err>>

\* generation raises and the lock stays held (acquire and release written
\* out by hand, the release skipped by the exception)
GenFail_KeepsLock(s) ==
    /\ pc[s] = "generating"
    /\ Runnable(s)
    /\ err' = [err EXCEPT ![s] = "generation"]
    /\ loop_thread' = 0
    /\ pc' = [pc EXCEPT ![s] = "closing"]
    /\ UNCHANGED <<decoded, cleaned, plan, conn, chat_histories, locked,
                   waiters, received, context, response, sent, chat_logs>>

\* lines 159-160, 175-177: generation raises; the lock is released on the
\* way out of the async with block and the handler calls websocket.close()
GenFail(s) ==
    /\ pc[s] = "generating"
    /\ Runnable(s)
    /\ locked' = FALSE
    /\ err' = [err EXCEPT ![s] = "generation"]
    /\ loop_thread' = 0
    /\ pc' = [pc EXCEPT ![s] = "closing"]
    /\ UNCHANGED <<decoded, cleaned, plan, conn, chat_histories, waiters,
                   received, context, response, sent, chat_logs>>

\* a row with the two texts in each other's column
LogRecord_Swapped(s) ==
    [session_id |-> s, user_message |-> response[s], ai_response |-> user_input(s)]

\* lines 80-91: the row log_chat inserts
LogRecord(s) ==
    [session_id |-> s, user_message |-> user_input(s), ai_response |-> response[s]]

\* lines 163-166: the insert succeeds; send_text(response) is called
LogOk(s) ==
    /\ pc[s] = "logging"
    /\ Runnable(s)
    /\ chat_logs' = [chat_logs EXCEPT ![s] = Append(@, LogRecord(s))]
    /\ pc' = [pc EXCEPT ![s] = "send_reply"]
    /\ UNCHANGED <<loop_thread, decoded, cleaned, plan, conn, chat_histories,
                   locked, waiters, received, context, response, sent, err>>

\* lines 163, 175-177: database.execute raises; the handler calls
\* websocket.close()
LogFail(s) ==
    /\ pc[s] = "logging"
    /\ Runnable(s)
    /\ err' = [err EXCEPT ![s] = "log"]
    /\ pc' = [pc EXCEPT ![s] = "closing"]
    /\ UNCHANGED <<loop_thread, decoded, cleaned, plan, conn, chat_histories,
                   locked, waiters, received, context, response, sent,
                   chat_logs>>

\* lines 166-167: the reply frame is sent; send_text("[END]") is called
SendReply(s) ==
    /\ pc[s] = "send_reply"
    /\ conn[s] = "open"
    /\ Runnable(s)
    /\ sent' = [sent EXCEPT ![s] = Append(@, response[s])]
    /\ pc' = [pc EXCEPT ![s] = "send_end"]
    /\ UNCHANGED <<loop_thread, decoded, cleaned, plan, conn, chat_histories,
                   locked, waiters, received, context, response, chat_logs,
                   err>>

\* the handler goes back to receive_text without the "[END]" frame
SendEnd_Skipped(s) ==
    /\ pc[s] = "send_end"
    /\ conn[s] = "open"
    /\ Runnable(s)
    /\ pc' = [pc EXCEPT ![s] = "receive"]
    /\ UNCHANGED <<loop_thread, decoded, cleaned, plan, conn, chat_histories,
                   locked, waiters, received, context, response, sent,
                   chat_logs, err>>

\* lines 167-169, 149-150: the "[END]" frame is sent; back to receive_text
SendEnd(s) ==
    /\ pc[s] = "send_end"
    /\ conn[s] = "open"
    /\ Runnable(s)
    /\ sent' = [sent EXCEPT ![s] = Append(@, END)]
    /\ pc' = [pc EXCEPT ![s] = "receive"]
    /\ UNCHANGED <<loop_thread, decoded, cleaned, plan, conn, chat_histories,
                   locked, waiters, received, context, response, chat_logs,
                   err>>

\* lines 166-167, 171-174: send_text on a lost connection raises
\* WebSocketDisconnect (the server's OSError translated by the framework)
SendDisconnect(s) ==
    /\ pc[s] \in {"send_reply", "send_end"}
    /\ conn[s] = "gone"
    /\ Runnable(s)
    /\ chat_histories' = Pop(chat_histories, s)
    /\ pc' = [pc EXCEPT ![s] = "done"]
    /\ UNCHANGED <<loop_thread, decoded, cleaned, plan, conn, locked, waiters,
                   received, context, response, sent, chat_logs, err>>

\* lines 166-167, 175-177: send_text on a lost connection raises another
\* exception (the server's error passed through untranslated)
SendFault(s) ==
    /\ pc[s] \in {"send_reply", "send_end"}
    /\ conn[s] = "gone"
    /\ Runnable(s)
    /\ err' = [err EXCEPT ![s] = "send"]
    /\ pc' = [pc EXCEPT ![s] = "closing"]
    /\ UNCHANGED <<loop_thread, decoded, cleaned, plan, conn, chat_histories,
                   locked, waiters, received, context, response, sent,
                   chat_logs>>

\* lines 177-179: websocket.close() succeeds, then the session is popped
CloseOk(s) ==
    /\ pc[s] = "closing"
    /\ conn[s] = "open"
    /\ Runnable(s)
    /\ conn' = [conn EXCEPT ![s] = "closed"]
    /\ chat_histories' = Pop(chat_histories, s)
    /\ pc' = [pc EXCEPT ![s] = "done"]
    /\ UNCHANGED <<loop_thread, decoded, cleaned, plan, locked, waiters,
                   received, context, response, sent, chat_logs, err>>

\* line 177: websocket.close() on a lost connection raises inside the except
\* block; the exception leaves the handler and line 178 is not reached
CloseFault(s) ==
    /\ pc[s] = "closing"
    /\ conn[s] = "gone"
    /\ Runnable(s)
    /\ pc' = [pc EXCEPT ![s] = "done"]
    /\ UNCHANGED <<loop_thread, decoded, cleaned, plan, conn, chat_histories,
                   locked, waiters, received, context, response, sent,
                   chat_logs, err>>

Next ==
    \E s \in Sessions :
        \/ Accept(s)
        \/ ClientDisconnect(s)
        \/ ReceiveText(s)
        \/ ReceiveDisconnect(s)
        \/ ReceiveFault(s)
        \/ AcquireWake(s)
        \/ GenReturn(s)
        \/ GenFail(s)
        \/ LogOk(s)
        \/ LogFail(s)
        \/ SendReply(s)
        \/ SendEnd(s)
        \/ SendDisconnect(s)
        \/ SendFault(s)
        \/ CloseOk(s)
        \/ CloseFault(s)

Spec == Init /\ [][Next]_vars

\* ---------------------------------------------------------------- fairness
\*
\* The event loop runs its ready callbacks in FIFO order, so a handler whose
\* await has completed is resumed; asyncio.Lock wakes its waiters in FIFO
\* order. Nothing makes a client connect or send, so Accept, ClientDisconnect,
\* ReceiveText and ReceiveFault carry no fairness.

\* the steps of handler s that follow the completion of a lock acquire, a log
\* write, a send, a close or a receive on a lost connection
HandlerStep(s) ==
    \/ ReceiveDisconnect(s)
    \/ AcquireWake(s)
    \/ LogOk(s)
    \/ LogFail(s)
    \/ SendReply(s)
    \/ SendEnd(s)
    \/ SendDisconnect(s)
    \/ SendFault(s)
    \/ CloseOk(s)
    \/ CloseFault(s)

\* the generation call of handler s comes back, with a value or an exception
\* (model.generate has no timeout, lines 97-104)
GenDone(s) == GenFail(s) \/ GenReturn(s)

\* every await completes: the generation calls, the log writes, the sends
FairSpec ==
    /\ Spec
    /\ \A s \in Sessions : WF_vars(HandlerStep(s)) /\ WF_vars(GenDone(s))

\* the connection whose generation calls may never return
HungSession == 1

\* every await completes but the generation calls of connection HungSession
HungSpec ==
    /\ Spec
    /\ \A s \in Sessions : WF_vars(HandlerStep(s))
    /\ \A s \in Sessions \ {HungSession} : WF_vars(GenDone(s))

\* ------------------------------------- generate_response run on its own
\*
\* The post-processing of lines 108-133 is a function of the decoded text
\* alone. SanitizeSpec draws a decoded text from RawTexts and applies it; the
\* connection handlers stay where Init puts them.

\* the pieces the decoded texts are made of: sentences followed by a space or
\* by a newline, a word, a letter outside ASCII, a space, the two role markers,
\* a tag, a thinking word
Tokens ==
    { <<"a", ".", " ">>,
      <<"é">>,
      <<"b", "!", "\n">>,
      <<"c">>,
      <<" ">>,
      <<"U", "s", "e", "r", ":">>,
      <<"A", "s", "s", "i", "s", "t", "a", "n", "t", ":">>,
      <<"<", "i", ">">>,
      <<"S", "o">> }

\* the texts made of at most n pieces
RECURSIVE TextsUpTo(_)
TextsUpTo(n) ==
    IF n = 0 THEN {<<>>}
    ELSE LET shorter == TextsUpTo(n - 1)
         IN  shorter \cup {t \o k : t \in shorter, k \in Tokens}

\* the decoded texts tokenizer.decode can return
RawTexts == TextsUpTo(MaxTokens)

SanitizeInit ==
    /\ plan = "single"
    /\ pc = [s \in Sessions |-> "idle"]
    /\ conn = [s \in Sessions |-> "none"]
    /\ chat_histories = <<>>
    /\ locked = FALSE
    /\ waiters = <<>>
    /\ received = [s \in Sessions |-> <<>>]
    /\ context = [s \in Sessions |-> <<>>]
    /\ response = [s \in Sessions |-> <<>>]
    /\ sent = [s \in Sessions |-> <<>>]
    /\ chat_logs = [s \in Sessions |-> <<>>]
    /\ err = [s \in Sessions |-> "none"]
    /\ decoded \in RawTexts
    /\ cleaned = <<>>
    /\ loop_thread = 0

\* lines 107-133: the post-processing runs on decoded and returns
Sanitize ==
    /\ cleaned = <<>>
    /\ cleaned' = <<PostProcess(decoded)>>
    /\ UNCHANGED <<loop_thread, decoded, plan, pc, conn, chat_histories,
                   locked, waiters, received, context, response, sent,
                   chat_logs, err>>

SanitizeNext == Sanitize

SanitizeSpec == SanitizeInit /\ [][SanitizeNext]_vars

\* ------------------------------------------------------------------ claims

Odd(n) == n % 2 = 1

\* the turn is the System turn: it carries the System tag
IsSystemTurn(turn) == MatchAt(turn, SystemTag, 1)

\* C1: in every reachable state every session in chat_histories has at most
\* 1 + 2*MAX_HISTORY = 7 turns, after a User append and after an Assistant
\* append alike.
C1_BoundedHistory ==
    \A s \in DOMAIN chat_histories :
        Len(chat_histories[s]) <= 1 + 2 * MAX_HISTORY

\* C2: at most one handler is inside the guarded generation section at any
\* instant, whatever the interleaving of the connections.
C2_MutualExclusion ==
    Cardinality({s \in Sessions : pc[s] = "generating"}) <= 1

\* one handler generates while another one waits for the lock
C2_Witness ==
    \E s, t \in Sessions :
        s # t /\ pc[s] = "generating" /\ pc[t] = "wait_lock"

\* C3: a failed audit-log write is not fatal: whenever the log write of a
\* turn completes, with or without an error, the handler goes on to send the
\* reply, keeps its session in chat_histories, closes nothing and records no
\* error.
C3_LogFailureNotFatal ==
    [][\A s \in Sessions :
          (pc[s] = "logging" /\ pc'[s] # "logging") =>
              /\ pc'[s] = "send_reply"
              /\ err'[s] = "none"
              /\ s \in DOMAIN chat_histories'
              /\ chat_histories'[s] = chat_histories[s]]_vars

\* C4: whenever a connection handler has terminated, its session id is
\* absent from chat_histories, on every path to the end of the handler.
C4_RemovedOnTermination ==
    \A s \in Sessions : pc[s] = "done" => s \notin DOMAIN chat_histories

\* C5: the frames sent on a socket are, turn by turn, the sanitized reply of
\* the turn (the one logged for it) and then "[END]"; no other frame is
\* sent, and a reply without its "[END]" is either about to get it or the
\* last frame before the connection is closed.
C5_FrameProtocol ==
    \A s \in Sessions :
        /\ Len(sent[s]) <= 2 * Len(received[s])
        /\ \A i \in 1..Len(sent[s]) :
             IF Odd(i)
             THEN /\ sent[s][i] # END
                  /\ EndsWithTerminal(sent[s][i])
                  /\ (i + 1) \div 2 <= Len(chat_logs[s])
                  /\ sent[s][i] = chat_logs[s][(i + 1) \div 2].ai_response
             ELSE sent[s][i] = END
        /\ Odd(Len(sent[s])) => pc[s] \in {"send_end", "closing", "done"}
        /\ (Odd(Len(sent[s])) /\ pc[s] = "send_end") =>
               Len(sent[s]) = 2 * Len(received[s]) - 1

\* a socket that carried a full turn, then a reply, and was closed before
\* the "[END]" of that reply
C5_Witness ==
    \E s \in Sessions : Len(sent[s]) = 3 /\ pc[s] = "done"

\* C6: the lock is never left held: it is held only while some handler is
\* inside the generation call, and once it is free the first waiting handler
\* can take it.
C6_GateReleased ==
    /\ locked => \E s \in Sessions : pc[s] = "generating"
    /\ \A i \in 1..Len(waiters) : pc[waiters[i]] = "wait_lock"
    /\ (~locked /\ waiters # <<>>) => ENABLED AcquireWake(Head(waiters))

\* a generation failed for a client that has gone, and another handler is
\* generating after it
C6_Witness ==
    \E s, t \in Sessions :
        /\ s # t
        /\ err[s] = "generation"
        /\ conn[s] = "gone"
        /\ pc[t] = "generating"

\* C7: once the client of a session has disconnected, no log_chat call with
\* that session id is issued any more, also when the disconnect came while
\* the turn was waiting for the lock or generating.
C7_NoLogAfterDisconnect ==
    [][\A s \in Sessions :
          (conn[s] = "gone" /\ pc[s] # "logging") => pc'[s] # "logging"]_vars

\* C8: when the generation of a turn fails, the turn is aborted and the
\* session closed: no frame is sent and no row written for the turn, no
\* Assistant turn is appended, and once the handler has ended the session is
\* removed from chat_histories.
C8_GenerationFailureClosesSession ==
    \A s \in Sessions :
        err[s] = "generation" =>
            /\ pc[s] \in {"closing", "done"}
            /\ Len(sent[s]) = 2 * (Len(received[s]) - 1)
            /\ Len(chat_logs[s]) = Len(received[s]) - 1
            /\ pc[s] = "closing" =>
                   /\ s \in DOMAIN chat_histories
                   /\ chat_histories[s][Len(chat_histories[s])]
                          = UserTurn(user_input(s))
            /\ pc[s] = "done" => s \notin DOMAIN chat_histories

\* C9: every history starts with the System turn holding the fixed preamble
\* and holds exactly one System turn, whatever the users send.
C9_SystemTurnFirst ==
    \A s \in DOMAIN chat_histories :
        /\ Len(chat_histories[s]) >= 1
        /\ chat_histories[s][1] = SystemTurn
        /\ {i \in 1..Len(chat_histories[s]) : IsSystemTurn(chat_histories[s][i])}
               = {1}

\* a history that was trimmed after the fourth message, one of the messages
\* being a text that itself starts with the System tag
C9_Witness ==
    \E s \in DOMAIN chat_histories :
        /\ Len(received[s]) = 4
        /\ Len(chat_histories[s]) = 2 * MAX_HISTORY + 1
        /\ \E i \in 1..Len(received[s]) : IsSystemTurn(received[s][i])


\* C11: the context a handler passes to the generation call is its session's
\* history as it stands then (after the User append and the trim): the turns
\* joined by newlines, followed by "\nAssistant:"; the last of these turns is
\* the User turn holding the message just received.
C11_ContextIsHistory ==
    \A s \in Sessions :
        pc[s] \in {"wait_lock", "generating"} =>
            /\ s \in DOMAIN chat_histories
            /\ LET h == chat_histories[s]
               IN  /\ context[s] =
                          JoinWith(<<"\n">>, h)
                              \o <<"\n", "A", "s", "s", "i", "s", "t", "a", "n", "t", ":">>
                   /\ h[Len(h)] = <<"U", "s", "e", "r", ":", " ">> \o user_input(s)

\* a handler inside the generation call for its fourth message, whose append
\* had the history trimmed, while another connection was made as well
C11_Witness ==
    \E s \in Sessions :
        /\ pc[s] = "generating"
        /\ Len(received[s]) = 4
        /\ Len(chat_histories[s]) = 2 * MAX_HISTORY + 1
        /\ \E t \in Sessions : pc[t] \notin {"idle", "receive"} /\ t # s

\* C12: for every turn whose reply and "[END]" were sent, exactly one row was
\* written to chat_logs: it holds the session's id, the message received in
\* that turn and the reply that was sent; the rows of a session are in turn
\* order, one per turn and none for a turn that has not been generated.
C12_OneRecordPerTurn ==
    \A s \in Sessions :
        /\ Len(chat_logs[s]) <= Len(received[s])
        /\ Len(chat_logs[s]) >= Len(sent[s]) \div 2
        /\ Len(chat_logs[s]) <= (Len(sent[s]) \div 2) + 1
        /\ \A k \in 1..Len(chat_logs[s]) :
             /\ chat_logs[s][k].session_id = s
             /\ chat_logs[s][k].user_message = received[s][k]
             /\ 2 * k <= Len(sent[s]) =>
                    /\ chat_logs[s][k].ai_response = sent[s][2 * k - 1]
                    /\ sent[s][2 * k] = END

\* a session with two answered turns whose messages differ and whose replies
\* differ
C12_Witness ==
    \E s \in Sessions :
        /\ Len(sent[s]) = 4
        /\ received[s][1] # received[s][2]
        /\ sent[s][1] # sent[s][3]

\* C13: for every decoded text the sanitized reply is non-empty and its last
\* character is '.', '!' or '?'; when the steps before the punctuation step
\* leave the empty string (as for the empty text) the reply is exactly ".".
C13_ReplyEndsWithTerminal ==
    cleaned # <<>> =>
        LET reply == cleaned[1]
            before == TruncateSentences(RemoveThinking(CutAtMarker(RemoveTags(
                          ExtractReply(decoded)))))
        IN  /\ reply # <<>>
            /\ reply[Len(reply)] \in {".", "!", "?"}
            /\ decoded = <<>> => reply = <<".">>
            /\ before = <<>> => reply = <<".">>

\* a decoded text that holds more than whitespace and whose reply is the lone
\* full stop
C13_Witness ==
    /\ \E i \in 1..Len(decoded) : decoded[i] \notin Whitespace
    /\ cleaned = << <<".">> >>

\* C14: for every decoded text the sanitized reply contains no "User:" and no
\* "Assistant:" marker: the text is cut at the first marker after the extracted
\* reply, whatever follows the colon (a space, a letter or the end of the text).
C14_NoMarkerInReply ==
    cleaned # <<>> =>
        \A i \in 1..Len(cleaned[1]) :
            /\ ~MatchAt(cleaned[1], <<"U", "s", "e", "r", ":">>, i)
            /\ ~MatchAt(cleaned[1], <<"A", "s", "s", "i", "s", "t", "a", "n", "t", ":">>, i)

\* C15: for every decoded text the sanitized reply holds at most 3 sentences,
\* a sentence ending at '.', '!' or '?' followed by whitespace, whether the
\* sentences of the text were separated by spaces or by newlines: at most two
\* sentence ends inside the reply, the third sentence being the last.
C15_AtMostThreeSentences ==
    cleaned # <<>> =>
        LET reply == cleaned[1]
            ends == {i \in 1..(Len(reply) - 1) :
                        reply[i] \in {".", "!", "?"} /\ reply[i + 1] \in Whitespace}
        IN  Cardinality(ends) <= 2

\* C16: when the append of a User turn makes a history longer than 7 turns,
\* the history after the trim is the System turn followed by the 6 most
\* recent turns of the history before the trim, in their order; a history of
\* at most 7 turns is left unchanged by the trim.
C16_TrimKeepsRecent ==
    [][\A s \in Sessions :
          (s \in DOMAIN chat_histories /\ received'[s] # received[s]) =>
              LET before == Append(chat_histories[s],
                                   <<"U", "s", "e", "r", ":", " ">>
                                       \o received'[s][Len(received'[s])])
                  after  == chat_histories'[s]
              IN  IF Len(before) > 7
                  THEN /\ Len(after) = 7
                       /\ after[1] = before[1]
                       /\ after[1] = SystemTurn
                       /\ \A i \in 2..7 : after[i] = before[Len(before) - 7 + i]
                  ELSE after = before]_vars

\* a history trimmed at the fourth message: the first message has gone, the
\* first reply is the oldest turn kept, the messages left differ
C16_Witness ==
    \E s \in DOMAIN chat_histories :
        /\ Len(received[s]) = 4
        /\ pc[s] = "generating"
        /\ Len(chat_histories[s]) = 7
        /\ chat_histories[s][2] = AssistantTurn(sent[s][1])
        /\ received[s][1] # received[s][2]
        /\ received[s][2] # received[s][3]

\* the replies generated in session t so far
OwnReplies(t) ==
    {chat_logs[t][k].ai_response : k \in 1..Len(chat_logs[t])}
        \cup (IF response[t] = <<>> THEN {} ELSE {response[t]})

\* the turns received or generated in session t so far
OwnTurns(t) ==
    {UserTurn(received[t][k]) : k \in 1..Len(received[t])}
        \cup {AssistantTurn(r) : r \in OwnReplies(t)}

\* C18: a handler step changes only its own session's entry of
\* chat_histories: the entry of a session whose handler did not take the step
\* is neither added, removed nor changed, also when the step is the
\* disconnect or the fault of another session; and after its System turn a
\* history holds only turns received or generated in its own session, never
\* a turn received or generated in another one.
C18_OnlyOwnEntry ==
    /\ [](\A t \in DOMAIN chat_histories :
            \A i \in 2..Len(chat_histories[t]) :
                /\ chat_histories[t][i] \in OwnTurns(t)
                /\ \A u \in Sessions \ {t} : chat_histories[t][i] \notin OwnTurns(u))
    /\ [][\A t \in Sessions :
            pc'[t] = pc[t] =>
                /\ (t \in DOMAIN chat_histories') = (t \in DOMAIN chat_histories)
                /\ t \in DOMAIN chat_histories =>
                       chat_histories'[t] = chat_histories[t]]_vars

\* one session generated a reply, ended by a fault and was removed while
\* another one, which holds a User turn and an Assistant turn of its own, is
\* still stored
C18_Witness ==
    \E s, t \in Sessions :
        /\ s # t
        /\ pc[s] = "done"
        /\ err[s] # "none"
        /\ response[s] # <<>>
        /\ s \notin DOMAIN chat_histories
        /\ t \in DOMAIN chat_histories
        /\ Len(chat_histories[t]) >= 3
        /\ response[t] # <<>>
        /\ response[t] # response[s]

\* C20: within one session the turns are strictly sequential: the handler
\* is at receive only when every message received so far has its reply and
\* its "[END]" sent, so at most one message of a session is unanswered and at
\* most one generation of a session is waiting or in flight; when the reply
\* is about to be sent the Assistant turn is already appended and the row
\* already written; the replies are sent in the order of their messages.
C20_TurnsSequential ==
    \A s \in Sessions :
        /\ pc[s] = "receive" => Len(sent[s]) = 2 * Len(received[s])
        /\ Len(received[s]) - Len(sent[s]) \div 2 \in {0, 1}
        /\ Cardinality({i \in 1..Len(waiters) : waiters[i] = s}) <= 1
        /\ pc[s] = "generating" => \A i \in 1..Len(waiters) : waiters[i] # s
        /\ pc[s] \in {"wait_lock", "generating", "logging", "send_reply"} =>
               Len(sent[s]) = 2 * (Len(received[s]) - 1)
        /\ pc[s] = "send_reply" =>
               /\ s \in DOMAIN chat_histories
               /\ chat_histories[s][Len(chat_histories[s])] = AssistantTurn(response[s])
               /\ Len(chat_logs[s]) = Len(received[s])
               /\ chat_logs[s][Len(chat_logs[s])].ai_response = response[s]
        /\ \A k \in 1..(Len(sent[s]) \div 2) :
               /\ chat_logs[s][k].user_message = received[s][k]
               /\ chat_logs[s][k].ai_response = sent[s][2 * k - 1]

\* the handler is about to send the reply of its second turn while another
\* handler waits for the lock or generates
C20_Witness ==
    \E s, t \in Sessions :
        /\ s # t
        /\ pc[s] = "send_reply"
        /\ Len(received[s]) = 2
        /\ Len(sent[s]) = 2
        /\ pc[t] \in {"wait_lock", "generating"}

\* handler s has received a message whose "[END]" is not sent yet
Unanswered(s) == Len(sent[s]) < 2 * Len(received[s])

\* C17 as stated: a generation call that never returns blocks the turn of
\* the one session that issued it; the messages of the other sessions are
\* still eventually answered (or their session closed).
C17_OthersStillAnswered ==
    \A t \in Sessions \ {HungSession} :
        (Unanswered(t) /\ pc[t] \notin {"closing", "done"})
            ~> (~Unanswered(t) \/ pc[t] \in {"closing", "done"})

\* C17, amended: a generation call that has not returned blocks the turn of
\* the session that issued it and, the lock staying held, the turn of every
\* session that waits for the lock: as long as the call is in flight no
\* frame of the turn is sent, no waiting handler gets the lock and no waiting
\* session is sent a frame.
C17_HungGenerationHoldsGate ==
    [][\A s \in Sessions :
          (pc[s] = "generating" /\ pc'[s] = "generating") =>
              /\ locked /\ locked'
              /\ Unanswered(s)' /\ sent'[s] = sent[s]
              /\ \A t \in Sessions \ {s} :
                     pc[t] = "wait_lock" =>
                         /\ pc'[t] = "wait_lock"
                         /\ Unanswered(t)'
                         /\ sent'[t] = sent[t]]_vars

\* the generation of connection HungSession is in flight and another
\* session, whose client is still there, waits for the lock with its first
\* message unanswered
C17_Witness ==
    \E t \in Sessions \ {HungSession} :
        /\ pc[HungSession] = "generating"
        /\ pc[t] = "wait_lock"
        /\ conn[t] = "open"
        /\ Len(received[t]) = 1
        /\ sent[t] = <<>>

\* C19: if every generation call, log write and send completes, every handler
\* waiting for the lock eventually gets it, and every received message is
\* eventually followed by its reply and "[END]" or by its session closed and
\* removed from chat_histories; the handlers contending for the lock never
\* deadlock.
C19_EveryMessageSettled ==
    /\ \A s \in Sessions : pc[s] = "wait_lock" ~> pc[s] = "generating"
    /\ \A s \in Sessions :
           Unanswered(s) ~>
               \/ ~Unanswered(s)
               \/ pc[s] = "done" /\ s \notin DOMAIN chat_histories
    /\ [](waiters # <<>> =>
              \/ \E s \in Sessions : pc[s] = "generating"
              \/ ENABLED AcquireWake(Head(waiters)))

====
